---- MODULE Spec2Model ----
(***************************************************************************)
(* Model of scripts/update_assets.py: the change-detection and versioning  *)
(* decision of update_asset and the aggregation loop of update_assets.     *)
(*                                                                         *)
(* Python values are modelled as records [k, s, n]: None, a str (a         *)
(* sequence of one-character strings) or an int.  An asset directory is a  *)
(* record of the files it holds; a directory that may be missing is a      *)
(* sequence of length 0 (missing) or 1 (present).                          *)
(***************************************************************************)
EXTENDS Integers, Sequences, FiniteSets, TLC

\* ---------------------------------------------------------------- bounds
MaxAssets == 2      \* assets discovered by one walk
MaxReg == 2         \* distinct resolutions the pinning transform can produce

\* ------------------------------------------------------- Python values
None == [k |-> "none", s |-> <<>>, n |-> 0]
Str(s) == [k |-> "str", s |-> s, n |-> 0]
IntVal(n) == [k |-> "int", s |-> <<>>, n |-> n]

\* truth value of a Python object: None, "" and 0 are false
Truthy(v) ==
  CASE v.k = "none" -> FALSE
    [] v.k = "str" -> v.s # <<>>
    [] v.k = "int" -> v.n # 0

Digits == <<"0", "1", "2", "3", "4", "5", "6", "7", "8", "9">>

IsDigit(c) == \E d \in 1..10 : Digits[d] = c

DigitVal(c) == (CHOOSE d \in 1..10 : Digits[d] = c) - 1

RECURSIVE DigitsVal(_)
DigitsVal(s) ==
  IF s = <<>> THEN 0
  ELSE 10 * DigitsVal(SubSeq(s, 1, Len(s) - 1)) + DigitVal(s[Len(s)])

AllDigits(s) == s # <<>> /\ \A i \in 1..Len(s) : IsDigit(s[i])

\* int(v) of a str: optional sign, then decimal digits; anything else raises
\* ValueError (ok = FALSE)
PyInt(v) ==
  LET s == v.s
      neg == s # <<>> /\ s[1] = "-"
      pos == s # <<>> /\ s[1] = "+"
      body == IF neg \/ pos THEN Tail(s) ELSE s
  IN IF v.k = "int" THEN [ok |-> TRUE, n |-> v.n]
     ELSE IF v.k = "str" /\ AllDigits(body)
          THEN [ok |-> TRUE, n |-> IF neg THEN 0 - DigitsVal(body) ELSE DigitsVal(body)]
          ELSE [ok |-> FALSE, n |-> 0]

RECURSIVE NatChars(_)
NatChars(n) ==
  IF n < 10 THEN <<Digits[n + 1]>>
  ELSE NatChars(n \div 10) \o <<Digits[(n % 10) + 1]>>

\* the characters of str(v), which is also what an f-string or str.format shows
PyChars(v) ==
  CASE v.k = "none" -> <<"N", "o", "n", "e">>
    [] v.k = "str" -> v.s
    [] v.k = "int" -> IF v.n < 0 THEN <<"-">> \o NatChars(0 - v.n) ELSE NatChars(v.n)

PyStr(v) == Str(PyChars(v))
\* ------------------------------------------------- files and directories
\* AssetType values
ENVIRONMENT == "environment"
IMAGE == "image"

AssetName == "asset"

\* the content of a file other than its version field: c is what the author
\* wrote, pin is 0 while its references are unpinned and the resolution the
\* pinning transform wrote otherwise
Content(c, pin) == [c |-> c, pin |-> pin]

\* an asset directory: the asset config's version and the environment
\* config's template_files and os, the template file "context", and the spec
\* file (version field and the rest of it)
Dir(version, template_files, os, context, spec_version, spec_body) ==
  [version |-> version, template_files |-> template_files, os |-> os,
   context |-> context, spec_version |-> spec_version, spec_body |-> spec_body]

Missing == <<>>
Present(d) == <<d>>

\* AssetConfig.version: the version of the asset config, None when absent
AssetConfig_version(d) == d.version

\* Spec.version: the version recorded in the spec file
Spec_version(d) == d.spec_version

\* pin_versions.transform_file: rewrite the references of a file to the
\* versions resolved now
transform_file(content, registry) == [content EXCEPT !.pin = registry]

\* update_spec.update: rewrite the version field of the spec in a directory
update_spec(d, version) == [d EXCEPT !.spec_version = version]

\* util.are_dir_trees_equal: same files, each pair byte-identical
are_dir_trees_equal(a, b) ==
  /\ a.version = b.version
  /\ a.template_files = b.template_files
  /\ a.os = b.os
  /\ a.context = b.context
  /\ a.spec_version = b.spec_version
  /\ a.spec_body = b.spec_body

\* util.copy_replace_dir: remove the destination, then copy the source there
copy_replace_dir(fs, d, dst) == [fs EXCEPT ![dst] = Present(d)]

\* shutil.copyfile of the spec file into a directory: version field and body
copy_spec(from, to) ==
  [to EXCEPT !.spec_version = from.spec_version, !.spec_body = from.spec_body]

\* the files of a directory that an environment can list as templates; a
\* listed "gone" is not in the directory
ExistingFiles == {"context", "spec"}

\* pin_env_files: transform every listed template file that exists
pin_env_files(d, registry) ==
  [d EXCEPT
     !.context = IF "context" \in d.template_files
                 THEN transform_file(d.context, registry) ELSE d.context,
     !.spec_body = IF "spec" \in d.template_files
                   THEN transform_file(d.spec_body, registry) ELSE d.spec_body]

\* the warnings pin_env_files logs: one per listed file that is missing
pin_warnings(d) == Cardinality(d.template_files \ ExistingFiles)

\* RELEASE_TAG_VERSION_TEMPLATE inside TAG_TEMPLATE, for a config version
TagRef(type, name, version) == <<"refs", "tags", type, name, PyChars(version)>>

NoRef == <<>>

\* release_tag_exists: the reference built from the config's own version
release_tag_ref(type, config_dir) ==
  TagRef(type, AssetName, AssetConfig_version(config_dir))

release_tag_exists(type, config_dir, tags) ==
  release_tag_ref(type, config_dir) \in tags
\* ------------------------------------------------------------ update_asset
\* a slip: the output root is used even when none is given
output_directory_ignoring_default(output_directory_root) == "output"

\* where update_asset writes: the output root when one is given, else the
\* asset's release directory
output_directory(output_directory_root) ==
  IF output_directory_root THEN "output" ELSE "release"

\* the version update_asset holds as release_version when the release
\* directory exists: the counterpart's config version for an explicit
\* version, the counterpart's Spec version otherwise
release_version_of(main_version, rel) ==
  IF Truthy(main_version) THEN AssetConfig_version(rel) ELSE Spec_version(rel)

\* a slip: the version test is inverted
version_unchanged_inverted(main_version, release_version) ==
  Truthy(main_version) /\ main_version # release_version

\* explicit releases: no version change
version_unchanged(main_version, release_version) ==
  Truthy(main_version) /\ main_version = release_version

\* copy the asset to the temporary directory and pin an environment's files
stage(type, src, registry) ==
  IF type = ENVIRONMENT THEN pin_env_files(src, registry) ELSE src

\* the staged copy as it is compared and copied: stamped with the release
\* version when the contents are to be checked
stamp(check_contents, temp, release_version) ==
  IF check_contents THEN update_spec(temp, release_version) ELSE temp

\* a slip: the result of the comparison is inverted
contents_unchanged_inverted(check_contents, temp, rel) ==
  check_contents /\ ~are_dir_trees_equal(temp, rel)

\* dynamic releases: the stamped staged copy equals the release counterpart
contents_unchanged(check_contents, temp, rel) ==
  check_contents /\ are_dir_trees_equal(temp, rel)

\* a slip: a first dynamic release starts at 0
new_version_from_zero(main_version, release_version) ==
  IF Truthy(main_version) THEN [ok |-> TRUE, v |-> main_version]
  ELSE IF Truthy(release_version)
       THEN [ok |-> PyInt(release_version).ok,
             v |-> IntVal(PyInt(release_version).n + 1)]
       ELSE [ok |-> TRUE, v |-> IntVal(0)]

\* the new version; ok is FALSE when int(release_version) raises
new_version(main_version, release_version) ==
  IF Truthy(main_version) THEN [ok |-> TRUE, v |-> main_version]
  ELSE IF Truthy(release_version)
       THEN [ok |-> PyInt(release_version).ok,
             v |-> IntVal(PyInt(release_version).n + 1)]
       ELSE [ok |-> TRUE, v |-> IntVal(1)]

\* a slip: the version is set in the staged spec, the clean spec is not copied
write_spec_keeping_staged(fs, output_dir, version) ==
  [fs EXCEPT ![output_dir] = Present(update_spec(fs[output_dir][1], PyStr(version)))]

\* copy the clean spec over the copied staged directory and set its version
write_spec(fs, output_dir, version) ==
  [fs EXCEPT ![output_dir] =
     Present(update_spec(copy_spec(fs.source[1], fs[output_dir][1]), PyStr(version)))]

Outcome(fs, ret, raised, wrote, tagref, release_version, temp, compared, warnings) ==
  [fs |-> fs, ret |-> ret, raised |-> raised, wrote |-> wrote, tagref |-> tagref,
   release_version |-> release_version, temp |-> temp, compared |-> compared,
   warnings |-> warnings]

\* a slip: the asset config's version is returned
copy_only_asset_config_version(fs, output_dir) ==
  Outcome(copy_replace_dir(fs, fs.source[1], output_dir), AssetConfig_version(fs.source[1]),
          FALSE, TRUE, NoRef, None, Missing, FALSE, 0)

\* the copy_only path: copy the source directory, return its Spec version
copy_only_asset(fs, output_dir) ==
  Outcome(copy_replace_dir(fs, fs.source[1], output_dir), Spec_version(fs.source[1]),
          FALSE, TRUE, NoRef, None, Missing, FALSE, 0)

\* update_asset for one asset whose source, release and output directories
\* are fs.source, fs.release and fs.output, in a repository holding tags
update_asset(type, fs, tags, copy_only, output_directory_root, registry) ==
  LET output_dir == output_directory(output_directory_root)
      src == fs.source[1]
      main_version == AssetConfig_version(src)
      exists == fs.release # Missing
      rel == fs.release[1]
      release_version == IF exists THEN release_version_of(main_version, rel) ELSE None
      check_contents == exists /\ ~Truthy(main_version)
      tagref == IF exists THEN release_tag_ref(type, rel) ELSE NoRef
      temp == stamp(check_contents, stage(type, src, registry), release_version)
      warned == IF type = ENVIRONMENT THEN pin_warnings(src) ELSE 0
      copied == copy_replace_dir(fs, temp, output_dir)
      nv == new_version(main_version, release_version)
  IN IF copy_only THEN copy_only_asset(fs, output_dir)
     ELSE IF exists /\ version_unchanged(main_version, release_version)
       THEN Outcome(fs, None, FALSE, FALSE, NoRef, release_version, Missing, FALSE, 0)
     ELSE IF exists /\ ~release_tag_exists(type, rel, tags)
       THEN Outcome(fs, None, FALSE, FALSE, tagref, release_version, Missing, FALSE, 1)
     ELSE IF contents_unchanged(check_contents, temp, rel)
       THEN Outcome(fs, None, FALSE, FALSE, tagref, release_version, Present(temp),
                    TRUE, warned)
     ELSE IF ~nv.ok
       THEN Outcome(copied, None, TRUE, TRUE, tagref, release_version, Present(temp),
                    check_contents, warned)
     ELSE Outcome(write_spec(copied, output_dir, nv.v), nv.v, FALSE, TRUE, tagref,
                  release_version, Present(temp), check_contents, warned)
\* ------------------------------------------------------------ update_assets
\* the loop body's count of updated assets: "if new_version:"
count_updated(updated_count, returned) ==
  IF Truthy(returned) THEN updated_count + 1 ELSE updated_count

\* the loop body's set of updated operating systems
track_os(updated_os, returned, type, src) ==
  IF Truthy(returned) /\ type = ENVIRONMENT THEN updated_os \cup {src.os}
  ELSE updated_os

\* the has_updates output variable
has_updates_value(updated_count) ==
  IF updated_count > 0 THEN Str(<<"t", "r", "u", "e">>)
  ELSE Str(<<"f", "a", "l", "s", "e">>)

\* one iteration of the loop of update_assets over asset a, from the counts
\* c reached so far: the counts after it and the outcome of update_asset
loop_body(c, a, copy, out_root, reg) ==
  LET o == update_asset(a.type, a.fs, a.tags, copy, out_root, reg)
  IN [asset_count |-> c.asset_count + 1,
      updated_count |-> IF o.raised THEN c.updated_count
                        ELSE count_updated(c.updated_count, o.ret),
      updated_os |-> IF o.raised THEN c.updated_os
                     ELSE track_os(c.updated_os, o.ret, a.type, a.fs.source[1]),
      copied_count |-> IF o.wrote THEN c.copied_count + 1 ELSE c.copied_count,
      out |-> o]

\* ------------------------------------------------------------------ inputs
SrcVersions == {None, Str(<<"1">>), Str(<<"2">>)}
SrcSpecVersions == {Str(<<>>), Str(<<"1">>)}
RelVersions == {None, Str(<<"1">>), Str(<<"2">>)}
RelSpecVersions == {Str(<<"1">>), Str(<<"9">>), Str(<<"-", "1">>), Str(<<"1", ".", "0">>)}
TemplateLists == {{"context"}, {"context", "spec"}, {"context", "gone"}}
OSValues == {"linux", "windows"}
AssetTypes == {ENVIRONMENT, IMAGE}

\* source directories: nothing in a source tree is pinned
SrcDirs(type, lists, oss) ==
  { Dir(v, tf, os, Content("A", 0), sv, Content("S", 0)) :
      v \in SrcVersions,
      tf \in IF type = ENVIRONMENT THEN lists ELSE {{}},
      os \in IF type = ENVIRONMENT THEN oss ELSE {"none"},
      sv \in SrcSpecVersions }

\* release counterparts of a source: missing, or a directory written by an
\* earlier run (copy_only leaves the template unpinned, an update pins an
\* environment's template; the spec body is the clean one either way)
RelDirs(type, src, cs, pins) ==
  {Missing} \cup
  { Present(Dir(v, src.template_files, src.os, Content(c, pin), sv, Content("S", 0))) :
      v \in RelVersions, c \in cs,
      pin \in IF type = ENVIRONMENT THEN pins ELSE {0},
      sv \in RelSpecVersions }

\* what the output root holds for the asset before the run
OutDirs(out_root, src) ==
  IF out_root THEN {Missing, Present(src)} ELSE {Missing}

\* the tags the release repository can hold for the counterpart
AllTags(type, rel) ==
  IF rel = Missing THEN {}
  ELSE {TagRef(type, AssetName, rel[1].version),
        TagRef(type, AssetName, rel[1].spec_version)}

Asset(type, src, rel, out, tags) ==
  [type |-> type,
   fs |-> [source |-> Present(src), release |-> rel, output |-> out],
   tags |-> tags]

\* the assets a one-asset tree can hold
Assets(out_root) ==
  UNION { UNION { UNION { { Asset(type, src, rel, out, tags) :
                            out \in OutDirs(out_root, src),
                            tags \in SUBSET AllTags(type, rel) } :
                          rel \in RelDirs(type, src, {"A", "B"}, 0..1) } :
                  src \in SrcDirs(type, TemplateLists, {"linux"}) } :
          type \in AssetTypes }

\* the assets a walk over many assets finds: one template list, every
\* operating system, a counterpart that is missing or fully tagged
WalkAssets ==
  UNION { UNION { UNION { { Asset(type, src, rel, Missing, AllTags(type, rel)) } :
                          rel \in RelDirs(type, src, {"B"}, {0}) } :
                  src \in SrcDirs(type, {{"context"}}, OSValues) } :
          type \in AssetTypes }

\* ------------------------------------------------------------------- state
VARIABLES
  copy_only,              \* --copy-only
  output_directory_root,  \* TRUE when --output-directory is given
  registry,               \* what the pinning transform resolves to now
  pc,                     \* position of the program
  asset_count, updated_count, updated_os,   \* locals of update_assets
  copied_count,           \* assets copied into the output location this run
  has_updates, env_os_updates,              \* output variables, None until set
  tree,                   \* the asset last walked, as it is on disk now
  call,                   \* the last update_asset call: inputs and outcome
  first                   \* the update_asset call of the run before this one

vars == <<copy_only, output_directory_root, registry, pc, asset_count, updated_count,
          updated_os, copied_count, has_updates, env_os_updates, tree, call, first>>

Call(a, o, reg) ==
  [type |-> a.type, fs |-> a.fs, tags |-> a.tags, registry |-> reg, out |-> o]

ZeroCounts == [asset_count |-> 0, updated_count |-> 0, updated_os |-> {}, copied_count |-> 0]

Counts == [asset_count |-> asset_count, updated_count |-> updated_count,
           updated_os |-> updated_os, copied_count |-> copied_count]

InitRun ==
  /\ copy_only \in BOOLEAN
  /\ output_directory_root \in BOOLEAN
  /\ registry = 1
  /\ asset_count = 0 /\ updated_count = 0 /\ updated_os = {} /\ copied_count = 0
  /\ has_updates = None /\ env_os_updates = <<>>
  /\ call = <<>> /\ first = <<>>

\* ------------------------------------------- one walk over many assets
InitWalk == InitRun /\ pc = "walking" /\ tree = <<>>

\* the walk finds one more asset and processes it
WalkAsset ==
  /\ pc = "walking"
  /\ asset_count < MaxAssets
  /\ \E a \in WalkAssets :
       LET b == loop_body(Counts, a, copy_only, output_directory_root, registry)
       IN /\ asset_count' = b.asset_count
          /\ updated_count' = b.updated_count
          /\ updated_os' = b.updated_os
          /\ copied_count' = b.copied_count
          /\ call' = <<Call(a, b.out, registry)>>
          /\ tree' = <<[a EXCEPT !.fs = b.out.fs]>>
          /\ pc' = IF b.out.raised THEN "aborted" ELSE "walking"
  /\ UNCHANGED <<copy_only, output_directory_root, registry, has_updates,
                 env_os_updates, first>>

\* the walk is over: print the summary and set the output variables
Finish ==
  /\ pc = "walking"
  /\ has_updates' = has_updates_value(updated_count)
  /\ env_os_updates' = <<updated_os>>
  /\ pc' = "done"
  /\ UNCHANGED <<copy_only, output_directory_root, registry, asset_count, updated_count,
                 updated_os, copied_count, tree, call, first>>

NextWalk == WalkAsset \/ Finish

SpecWalk == InitWalk /\ [][NextWalk]_vars

\* ------------------------- two runs in succession over a one-asset tree
Init ==
  /\ InitRun
  /\ pc = "start"
  /\ \E a \in Assets(output_directory_root) : tree = <<a>>

\* update_assets over the tree, from the walk to the output variables
Invoke ==
  LET a == tree[1]
      b == loop_body(ZeroCounts, a, copy_only, output_directory_root, registry)
  IN /\ asset_count' = b.asset_count
     /\ updated_count' = b.updated_count
     /\ updated_os' = b.updated_os
     /\ copied_count' = b.copied_count
     /\ call' = <<Call(a, b.out, registry)>>
     /\ first' = call
     /\ tree' = <<[a EXCEPT !.fs = b.out.fs]>>
     /\ pc' = IF b.out.raised THEN "aborted" ELSE "done"
     /\ has_updates' = IF b.out.raised THEN None ELSE has_updates_value(b.updated_count)
     /\ env_os_updates' = IF b.out.raised THEN <<>> ELSE <<b.updated_os>>
     /\ UNCHANGED <<copy_only, output_directory_root, registry>>

\* the first run
Update == pc = "start" /\ Invoke

\* the second run, with the same arguments and the source as it was
UpdateAgain == pc = "done" /\ first = <<>> /\ Invoke

\* between the runs the version the first run wrote gets its tag in the
\* release repository
TagRelease ==
  /\ pc = "done" /\ first = <<>>
  /\ call[1].out.wrote
  /\ \E t \in AllTags(tree[1].type, tree[1].fs[output_directory(output_directory_root)])
             \ tree[1].tags :
       tree' = <<[tree[1] EXCEPT !.tags = @ \cup {t}]>>
  /\ UNCHANGED <<copy_only, output_directory_root, registry, pc, asset_count,
                 updated_count, updated_os, copied_count, has_updates, env_os_updates,
                 call, first>>

\* between the runs the pinning transform comes to resolve to newer versions
RegistryUpdate ==
  /\ pc = "done" /\ first = <<>>
  /\ registry < MaxReg
  /\ registry' = registry + 1
  /\ UNCHANGED <<copy_only, output_directory_root, pc, asset_count, updated_count,
                 updated_os, copied_count, has_updates, env_os_updates, tree, call, first>>

Next == Update \/ UpdateAgain \/ TagRelease \/ RegistryUpdate

Spec == Init /\ [][Next]_vars
\* ------------------------------------------------------------------ claims
\* the last update_asset call, its source and release counterpart, and what
\* the output location holds after it
TheCall == call[1]
CallSrc == TheCall.fs.source[1]
CallRel == TheCall.fs.release[1]
CallOutDir == output_directory(output_directory_root)
Written == TheCall.out.fs[CallOutDir][1]
Called == call # <<>>
NormalCall == Called /\ ~copy_only
HasCounterpart == TheCall.fs.release # Missing
Dynamic == ~Truthy(CallSrc.version)
NothingWritten == ~TheCall.out.wrote /\ TheCall.out.fs = TheCall.fs
ReturnedNone == ~TheCall.out.raised /\ TheCall.out.ret = None

\* the version of the release counterpart: its config version for an asset
\* with an explicit version, its Spec version for a dynamic one
CounterpartVersion == IF Dynamic THEN CallRel.spec_version ELSE CallRel.version
CounterpartTagged ==
  TagRef(TheCall.type, AssetName, CounterpartVersion) \in TheCall.tags

\* the template file of the staged copy: pinned to what the transform
\* resolved during the call when the asset is an environment listing it
PinnedContext ==
  IF TheCall.type = ENVIRONMENT /\ "context" \in CallSrc.template_files
  THEN Content(CallSrc.context.c, TheCall.registry) ELSE CallSrc.context

\* the staged copy of a dynamic asset, pinned and stamped with the
\* counterpart's Spec version, as a directory tree
StagedTree ==
  [CallSrc EXCEPT
     !.context = PinnedContext,
     !.spec_body = IF TheCall.type = ENVIRONMENT /\ "spec" \in CallSrc.template_files
                   THEN Content(CallSrc.spec_body.c, TheCall.registry) ELSE @,
     !.spec_version = CallRel.spec_version]

\* C1: with copy_only false and an existing release directory, if the tag of
\* the counterpart's version is missing then update_asset returns None and
\* writes nothing
C1_UntaggedIsNeverWritten ==
  (NormalCall /\ HasCounterpart /\ ~CounterpartTagged)
    => (ReturnedNone /\ NothingWritten)

\* C8: whenever the tag check is made, the reference looked up is
\* refs/tags/{type}/{name}/{version} with the version update_asset holds as
\* release_version
C8_TagRefNamesReleaseVersion ==
  (NormalCall /\ TheCall.out.tagref # NoRef)
    => TheCall.out.tagref =
         <<"refs", "tags", TheCall.type, AssetName, PyChars(TheCall.out.release_version)>>

\* C4: a dynamic asset whose counterpart's Spec records N, whose tag for N
\* exists and whose staged content differs from the counterpart is written,
\* N+1 is returned and the written spec records N+1
C4_DynamicChangeGivesNPlusOne ==
  (NormalCall /\ HasCounterpart /\ Dynamic /\ PyInt(CallRel.spec_version).ok
     /\ CounterpartTagged /\ StagedTree # CallRel)
    => /\ ~TheCall.out.raised
       /\ TheCall.out.wrote
       /\ TheCall.out.ret = IntVal(PyInt(CallRel.spec_version).n + 1)
       /\ Written.spec_version = PyStr(IntVal(PyInt(CallRel.spec_version).n + 1))
\* C3: an asset with no release counterpart is always written; the version
\* reported and recorded is "1" for a dynamic asset and the source's own
\* version for an explicit one; no tag is looked up and nothing is compared
C3_NewAssetAlwaysUpdates ==
  (NormalCall /\ ~HasCounterpart)
    => /\ ~TheCall.out.raised
       /\ TheCall.out.wrote
       /\ Written.context = PinnedContext
       /\ PyChars(TheCall.out.ret) = IF Dynamic THEN <<"1">> ELSE CallSrc.version.s
       /\ ~Dynamic => TheCall.out.ret = CallSrc.version
       /\ Written.spec_version = Str(PyChars(TheCall.out.ret))
       /\ TheCall.out.tagref = NoRef
       /\ ~TheCall.out.compared

C3_Witness ==
  /\ NormalCall /\ ~HasCounterpart /\ Dynamic
  /\ TheCall.out.wrote
  /\ TheCall.out.ret = IntVal(1)

\* C5: an asset with an explicit version equal to its counterpart's version
\* gets None, output and release directories stay as they were, nothing is
\* staged or compared and no tag is looked up
C5_SameStaticVersionIsLeftAlone ==
  (NormalCall /\ HasCounterpart /\ ~Dynamic /\ CallRel.version = CallSrc.version)
    => /\ ReturnedNone
       /\ NothingWritten
       /\ TheCall.out.temp = Missing
       /\ ~TheCall.out.compared
       /\ TheCall.out.tagref = NoRef

C5_Witness ==
  /\ NormalCall /\ HasCounterpart /\ ~Dynamic /\ CallRel.version = CallSrc.version
  /\ CounterpartTagged
  /\ CallRel.context # CallSrc.context
  /\ ReturnedNone

\* C6: with copy_only the source directory replaces the output path and the
\* source Spec's version is returned, whatever the release directory holds;
\* no tag is looked up, nothing is staged, pinned or compared
C6_CopyOnlyCopiesAndReturnsSpecVersion ==
  (Called /\ copy_only)
    => /\ ~TheCall.out.raised
       /\ TheCall.out.wrote
       /\ TheCall.out.fs[CallOutDir] = TheCall.fs.source
       /\ TheCall.out.ret = CallSrc.spec_version
       /\ TheCall.out.tagref = NoRef
       /\ TheCall.out.temp = Missing
       /\ ~TheCall.out.compared

C6_Witness ==
  /\ Called /\ copy_only /\ HasCounterpart
  /\ TheCall.tags = {}
  /\ CallSrc.version # None /\ CallSrc.version # CallSrc.spec_version
  /\ TheCall.out.ret = CallSrc.spec_version
  /\ TheCall.out.fs[CallOutDir] = TheCall.fs.source

\* C7: a dynamic asset whose counterpart exists and is tagged, and whose
\* staged copy equals the counterpart as a directory tree, gets None and
\* nothing is written
C7_EqualStagedCopyIsNoUpdate ==
  (NormalCall /\ HasCounterpart /\ Dynamic /\ CounterpartTagged /\ StagedTree = CallRel)
    => (ReturnedNone /\ NothingWritten)

C7_Witness ==
  /\ NormalCall /\ HasCounterpart /\ Dynamic /\ CounterpartTagged
  /\ StagedTree = CallRel
  /\ TheCall.out.compared
  /\ ReturnedNone

\* C10: when update_asset with copy_only false returns a new version, the
\* output location holds the staged copy's pinned template content and the
\* source's unpinned spec with only its version rewritten to the returned
\* version, also when the spec is a template file; the source is untouched
C10_OutputHoldsPinnedContentAndCleanSpec ==
  (NormalCall /\ ~TheCall.out.raised /\ TheCall.out.ret # None)
    => /\ Written.context = PinnedContext
       /\ Written.version = CallSrc.version
       /\ Written.template_files = CallSrc.template_files
       /\ Written.os = CallSrc.os
       /\ Written.spec_body = CallSrc.spec_body
       /\ Written.spec_version = Str(PyChars(TheCall.out.ret))
       /\ TheCall.out.fs.source = TheCall.fs.source

C10_Witness ==
  /\ NormalCall /\ ~TheCall.out.raised /\ TheCall.out.ret # None
  /\ TheCall.type = ENVIRONMENT
  /\ CallSrc.template_files = {"context", "spec"}
  /\ TheCall.out.temp[1].spec_body.pin = TheCall.registry
  /\ Written.context.pin = TheCall.registry
  /\ Written.spec_body.pin = 0

\* C9: when update_assets completes, updated_count is the number of assets
\* copied into the output location, it is at most asset_count, and
\* has_updates is "true" exactly when an asset was copied
C9_CountsEveryCopiedAsset ==
  pc = "done"
    => /\ updated_count = copied_count
       /\ updated_count <= asset_count
       /\ (has_updates = Str(<<"t", "r", "u", "e">>)) <=> (copied_count > 0)
       /\ (has_updates = Str(<<"f", "a", "l", "s", "e">>)) <=> (copied_count = 0)

\* C2: on a second run with the same arguments and an unchanged source,
\* update_asset returns None, updated_count is 0 and has_updates is "false"
SecondRunDone == first # <<>> /\ pc = "done" /\ ~copy_only
NoUpdateReported ==
  /\ ReturnedNone
  /\ updated_count = 0
  /\ has_updates = Str(<<"f", "a", "l", "s", "e">>)

C2_SecondRunReportsNoUpdate == SecondRunDone => NoUpdateReported

\* C2 as amended: the second run reports no update when it writes into the
\* release directory and, for a dynamic environment, the pinning transform
\* resolves as in the first run and the spec is not a template file it pins
C2_SecondRunInPlaceReportsNoUpdate ==
  (SecondRunDone /\ ~output_directory_root
     /\ ((Dynamic /\ TheCall.type = ENVIRONMENT)
           => (TheCall.registry = first[1].registry
               /\ "spec" \notin CallSrc.template_files)))
    => NoUpdateReported

C2_Witness ==
  /\ SecondRunDone /\ ~output_directory_root
  /\ first[1].out.wrote /\ Truthy(first[1].out.ret)
  /\ TheCall.tags # first[1].tags
  /\ TheCall.out.tagref \in TheCall.tags
  /\ Dynamic /\ TheCall.type = ENVIRONMENT
  /\ TheCall.out.compared
  /\ NoUpdateReported
====
